---- MODULE Spec2Model ----
(***************************************************************************)
(* Trending-score ranking of anonium-backend: the score function           *)
(* (posts/views.py calculate_trending_score), the on-demand rankers        *)
(* (TrendingPostListView.get, CommunityPostListCreateView.get_queryset)    *)
(* and the batch job (management command compute_trending_scores), on top  *)
(* of the post / vote / comment tables they read.                          *)
(*                                                                         *)
(* Time is counted in whole hours.  A float score is the pair <<w, f>>,    *)
(* standing for w + f / 10^7: the code rounds every score to 7 decimals.   *)
(* comment_weight is counted in tenths (0.7 is 7).  Timestamps are drawn   *)
(* from multiples of Tick and every positive half-life in HalfLifeInputs   *)
(* divides Tick, so elapsed_hours / half_life_hours is a whole number and  *)
(* 0.5 ** (elapsed_hours / half_life_hours) is an exact power of two.      *)
(***************************************************************************)
EXTENDS Integers, Sequences, FiniteSets, TLC

\* ---------------------------------------------------------------- bounds
NPosts == 2
NUsers == 2
MaxComments == 1
MaxTicks == 2
MaxVotes == 2
MaxCount == 2
MaxMembers == 4

\* ------------------------------------------------------ program constants
DEFAULT_HALF_LIFE == 6
DEFAULT_COMMENT_WEIGHT10 == 7
DEFAULT_LIMIT == 20
MAX_LIMIT == 50
SAMPLE_SIZE == 200
DEFAULT_LOOKBACK == 168
TOLERANCE7 == 1000
SCALE7 == 10000000
FIVE7 == 78125

\* ------------------------------------------------------------ arithmetic
Max(a, b) == IF a >= b THEN a ELSE b
Min(a, b) == IF a <= b THEN a ELSE b
Abs(a) == IF a < 0 THEN 0 - a ELSE a

RECURSIVE Pow2(_)
Pow2(n) == IF n <= 0 THEN 1 ELSE 2 * Pow2(n - 1)

\* Python int(x) of a float quotient a / 2: truncation toward zero.
IntHalf(a) == IF a >= 0 THEN a \div 2 ELSE 0 - ((0 - a) \div 2)

\* a / b rounded to the nearest integer, ties to the even one (Python round).
RoundHalfEven(a, b) ==
    LET q == a \div b
        r == a % b
    IN  IF 2 * r > b \/ (2 * r = b /\ q % 2 = 1) THEN q + 1 ELSE q

\* ---------------------------------------------------------- score values
ZeroScore == <<0, 0>>
ScoreLE(a, b) == a[1] < b[1] \/ (a[1] = b[1] /\ a[2] <= b[2])
ScoreLT(a, b) == a[1] < b[1] \/ (a[1] = b[1] /\ a[2] < b[2])
\* abs(a - b) > 0.0001
DiffExceeds(a, b) ==
    IF Abs(a[1] - b[1]) >= 2 THEN TRUE
    ELSE Abs((a[1] - b[1]) * SCALE7 + (a[2] - b[2])) > TOLERANCE7

\* round(num / 2^n, 7) for a natural num < 27487
RoundShift(num, n) ==
    IF n >= 39 THEN ZeroScore
    ELSE IF n = 38 THEN <<0, IF num * FIVE7 > Pow2(30) THEN 1 ELSE 0>>
    ELSE LET p == IF n <= 30 THEN Pow2(n) ELSE 0
             w == IF n <= 30 THEN num \div p ELSE 0
             r == IF n <= 30 THEN num % p ELSE num
             f == IF n <= 7 THEN r * FIVE7 * Pow2(7 - n)
                  ELSE RoundHalfEven(r * FIVE7, Pow2(n - 7))
         IN  IF f >= SCALE7 THEN <<w + 1, f - SCALE7>> ELSE <<w, f>>

\* ------------------------------------------------------ the score function
\* calculate_trending_score without the floor at zero engagement
calculate_trending_score_NoFloor(upvotes, downvotes, created_at, comment_count, comment_weight10, now, half_life_hours) ==
    LET hl == IF half_life_hours > 0 THEN half_life_hours ELSE DEFAULT_HALF_LIFE
        engagement10 == 10 * (upvotes - downvotes) + Max(comment_count, 0) * Max(comment_weight10, 0)
        elapsed == now - created_at
        elapsed_hours == IF elapsed < 0 THEN 0 ELSE elapsed
    IN  IF engagement10 >= 0
        THEN RoundShift((engagement10 + 10) * 10, elapsed_hours \div hl)
        ELSE <<0 - RoundShift((10 - engagement10) * 10, elapsed_hours \div hl)[1], 0>>

\* calculate_trending_score returning early on score < 0 instead of score <= 0
calculate_trending_score_StrictFloor(upvotes, downvotes, created_at, comment_count, comment_weight10, now, half_life_hours) ==
    LET hl == IF half_life_hours > 0 THEN half_life_hours ELSE DEFAULT_HALF_LIFE
        engagement10 == 10 * (upvotes - downvotes) + Max(comment_count, 0) * Max(comment_weight10, 0)
        score10 == Max(engagement10, 0)
        elapsed == now - created_at
        elapsed_hours == IF elapsed < 0 THEN 0 ELSE elapsed
    IN  IF engagement10 < 0 THEN ZeroScore
        ELSE RoundShift((score10 + 10) * 10, elapsed_hours \div hl)

\* calculate_trending_score with the decay base 2 instead of 0.5
calculate_trending_score_Growth(upvotes, downvotes, created_at, comment_count, comment_weight10, now, half_life_hours) ==
    LET hl == IF half_life_hours > 0 THEN half_life_hours ELSE DEFAULT_HALF_LIFE
        engagement10 == 10 * (upvotes - downvotes) + Max(comment_count, 0) * Max(comment_weight10, 0)
        score10 == Max(engagement10, 0)
        elapsed == now - created_at
        elapsed_hours == IF elapsed < 0 THEN 0 ELSE elapsed
    IN  IF score10 <= 0 THEN ZeroScore
        ELSE <<(score10 + 10) * 10 * Pow2(elapsed_hours \div hl), 0>>

\* calculate_trending_score without the clamp of a negative elapsed time
calculate_trending_score_NoClamp(upvotes, downvotes, created_at, comment_count, comment_weight10, now, half_life_hours) ==
    LET hl == IF half_life_hours > 0 THEN half_life_hours ELSE DEFAULT_HALF_LIFE
        engagement10 == 10 * (upvotes - downvotes) + Max(comment_count, 0) * Max(comment_weight10, 0)
        score10 == Max(engagement10, 0)
        elapsed == now - created_at
    IN  IF score10 <= 0 THEN ZeroScore
        ELSE IF elapsed < 0 THEN <<(score10 + 10) * 10 * Pow2((0 - elapsed) \div hl), 0>>
        ELSE RoundShift((score10 + 10) * 10, elapsed \div hl)

\* calculate_trending_score scaling score instead of score + 1
calculate_trending_score_NoPlusOne(upvotes, downvotes, created_at, comment_count, comment_weight10, now, half_life_hours) ==
    LET hl == IF half_life_hours > 0 THEN half_life_hours ELSE DEFAULT_HALF_LIFE
        engagement10 == 10 * (upvotes - downvotes) + Max(comment_count, 0) * Max(comment_weight10, 0)
        score10 == Max(engagement10, 0)
        elapsed == now - created_at
        elapsed_hours == IF elapsed < 0 THEN 0 ELSE elapsed
    IN  IF score10 <= 0 THEN ZeroScore
        ELSE RoundShift(score10 * 10, elapsed_hours \div hl)

\* calculate_trending_score falling back to a half-life of 3 hours
calculate_trending_score_Default3(upvotes, downvotes, created_at, comment_count, comment_weight10, now, half_life_hours) ==
    LET hl == IF half_life_hours > 0 THEN half_life_hours ELSE 3
        engagement10 == 10 * (upvotes - downvotes) + Max(comment_count, 0) * Max(comment_weight10, 0)
        score10 == Max(engagement10, 0)
        elapsed == now - created_at
        elapsed_hours == IF elapsed < 0 THEN 0 ELSE elapsed
    IN  IF score10 <= 0 THEN ZeroScore
        ELSE RoundShift((score10 + 10) * 10, elapsed_hours \div hl)

calculate_trending_score(upvotes, downvotes, created_at, comment_count, comment_weight10, now, half_life_hours) ==
    LET hl == IF half_life_hours > 0 THEN half_life_hours ELSE DEFAULT_HALF_LIFE
        engagement10 == 10 * (upvotes - downvotes) + Max(comment_count, 0) * Max(comment_weight10, 0)
        score10 == Max(engagement10, 0)
        elapsed == now - created_at
        elapsed_hours == IF elapsed < 0 THEN 0 ELSE elapsed
    IN  IF score10 <= 0 THEN ZeroScore
        ELSE RoundShift((score10 + 10) * 10, elapsed_hours \div hl)

\* ------------------------------------------------------------ input sets
Tick == DEFAULT_HALF_LIFE
Times == {k * Tick : k \in 0..MaxTicks}
HalfLifeInputs == {0 - 6, 0, 3, 6}
BatchSizeInputs == {1, 2}
Users == 1..NUsers
Anonymous == 0
Communities == {1, 2}
\* communities/models.py Community.Visibility; community 1 is public, 2 private
Visibility(c) == IF c = 1 THEN "public" ELSE "private"
VoteValues == {1, 0 - 1}

VARIABLES clock, posts, votes, comments, mutes, clip, runs, last, resp, probe,
          community, memberships, blocks, calls
vars == <<clock, posts, votes, comments, mutes, clip, runs, last, resp, probe,
          community, memberships, blocks, calls>>

\* clock    : timezone.now(), in hours
\* posts    : the Post table, a sequence; the primary key is the index
\* votes    : the PostVote table, a set of [post, user, value]
\* comments : the Comment table, a sequence of [post, parent, is_deleted]
\* mutes    : the UserMute table, a set of <<user, target>>
\* clip     : Community.clip_post_id of each community, 0 for none
\* runs     : the invocations of the management command, one record each
\* last     : the parameters of the run that has just completed, while no post,
\*            vote or comment was written since it started and the clock has
\*            not moved; NoRun otherwise
\* resp     : the last listing response
\* probe    : inputs and results of the score-function specifications
\* community   : per community, whether it exists, its join_policy and its
\*               members_count column
\* memberships : the CommunityMembership table, a set of
\*               [community, user, role, status]
\* blocks      : the CommunityBlock table, a set of <<community, user>>
\* calls       : the requests in progress that are followed statement by
\*               statement: the two vote requests and the sampler request

PostIds == DOMAIN posts
CommentIds == DOMAIN comments

\* Count('comments', filter=Q(comments__is_deleted=False))
active_comments(p) ==
    Cardinality({c \in CommentIds : comments[c].post = p /\ ~comments[c].is_deleted})

\* --------------------------------------- scoring, as each engine spells it
\* SamplerDerive with the sign of score turned round
SamplerDerive_Swapped(post) ==
    LET upvotes == Max(IntHalf(post.votes_total - post.score), 0)
        downvotes == Max(post.votes_total - upvotes, 0)
    IN  [upvotes |-> upvotes, downvotes |-> downvotes]

\* TrendingPostListView.get, the loop body: upvotes and downvotes
SamplerDerive(post) ==
    LET upvotes == Max(IntHalf(post.votes_total + post.score), 0)
        downvotes == Max(post.votes_total - upvotes, 0)
    IN  [upvotes |-> upvotes, downvotes |-> downvotes]

\* TrendingPostListView.get, the loop body: the ephemeral score
SamplerScore(post, comment_count, now, half_life) ==
    LET d == SamplerDerive(post)
    IN  calculate_trending_score(d.upvotes, d.downvotes, post.created_at, comment_count,
                                 DEFAULT_COMMENT_WEIGHT10, now, half_life)

\* CommunityPostListCreateView.get_queryset, sort == 'trending': upvotes and downvotes
CommunityDerive(post) ==
    LET upvotes == Max(IntHalf(post.votes_total + post.score), 0)
        downvotes == Max(post.votes_total - upvotes, 0)
    IN  [upvotes |-> upvotes, downvotes |-> downvotes]

\* CommunityPostListCreateView.get_queryset, sort == 'trending': the ephemeral score
CommunityScore(post, comment_count, now) ==
    LET d == CommunityDerive(post)
    IN  calculate_trending_score(d.upvotes, d.downvotes, post.created_at, comment_count,
                                 DEFAULT_COMMENT_WEIGHT10, now, 6)

\* Command.handle, the loop body: upvotes and downvotes
BatchDerive(post) ==
    LET upvotes == Max(IntHalf(post.votes_total + post.score), 0)
        downvotes == Max(post.votes_total - upvotes, 0)
    IN  [upvotes |-> upvotes, downvotes |-> downvotes]

\* Command.handle, the loop body: the value to persist
BatchScore(post, comment_count, now, half_life_hours) ==
    LET d == BatchDerive(post)
    IN  calculate_trending_score(d.upvotes, d.downvotes, post.created_at, comment_count,
                                 DEFAULT_COMMENT_WEIGHT10, now, half_life_hours)

\* ------------------------------------------------------------------ Init
IdleRun ==
    [pc |-> "idle", now |-> 0, cutoff_time |-> 0, lookback_hours |-> 0,
     half_life_hours |-> 0, batch_size |-> 0, total_count |-> 0, offset |-> 0,
     updates |-> {}, batch_len |-> 0, updated_count |-> 0, processed_count |-> 0,
     wrote |-> 0, repeat |-> FALSE, disturbed |-> FALSE, pages |-> << >>]
NoRun == [kind |-> "none"]
NoResp == [kind |-> "none"]
NoProbe == [kind |-> "none"]

\* guest users are the User rows named Anonium-<gid>; the other users log in
Guests == {NUsers + 1}
People == Users \cup Guests

\* a request in progress that has not started or has ended
NoCall == [pc |-> "idle"]
VoteCalls == {1, 2}
NoCalls == [vote |-> [k \in VoteCalls |-> NoCall], trending |-> NoCall]

Membership(c, u, role, status) ==
    [community |-> c, user |-> u, role |-> role, status |-> status]

\* the CommunityMembership rows of user u in community c (unique_together)
MembershipsOf(c, u) == {m \in memberships : m.community = c /\ m.user = u}
Approved(c, u) == \E m \in MembershipsOf(c, u) : m.status = "approved"

\* every community exists with join_policy OPEN, created by user 1, and every
\* login user has joined it; nothing is blocked and no request is in progress
Settled ==
    /\ community = [c \in Communities |->
                      [exists |-> TRUE, join_policy |-> "open", members_count |-> NUsers]]
    /\ memberships = {Membership(c, u, IF u = 1 THEN "owner" ELSE "member", "approved") :
                         c \in Communities, u \in Users}
    /\ blocks = {}
    /\ calls = NoCalls

Init ==
    /\ clock = 0
    /\ posts = << >>
    /\ votes = {}
    /\ comments = << >>
    /\ mutes = {}
    /\ clip = [c \in Communities |-> 0]
    /\ Settled
    /\ runs = [r \in {1} |-> IdleRun]
    /\ last = NoRun
    /\ resp = NoResp
    /\ probe = NoProbe

\* ------------------------------------------------- posts, votes, comments
\* a write to a post, vote or comment is seen by every run that has started
Disturbed ==
    [r \in DOMAIN runs |->
        IF runs[r].pc = "idle" THEN runs[r] ELSE [runs[r] EXCEPT !.disturbed = TRUE]]

\* Blocks, join policy and karma decide whether a request is refused; a request
\* that is refused before it writes anything is no step.

\* the membership part of perform_create, the same statements for a post and
\* for a comment: a login user is refused when blocked, passes when approved,
\* is joined when the community is OPEN (CM.objects.create fails on a row that
\* exists with another status) and is refused otherwise; a guest is refused
\* unless the community is OPEN, is joined when no row exists, and only then
\* checked for a block.
AutoJoin(u, c) ==
    LET blocked == <<c, u>> \in blocks
        open == community[c].join_policy = "open"
        same == [memberships |-> memberships, community |-> community]
        joined == [memberships |-> memberships \cup {Membership(c, u, "member", "approved")},
                   community |-> [community EXCEPT ![c].members_count = @ + 1]]
        refused == [accepted |-> FALSE] @@ same
    IN  IF u \in Users
        THEN IF blocked THEN refused
             ELSE IF Approved(c, u) THEN [accepted |-> TRUE] @@ same
             ELSE IF open /\ MembershipsOf(c, u) = {} THEN [accepted |-> TRUE] @@ joined
             ELSE refused
        ELSE IF ~open THEN refused
             ELSE IF MembershipsOf(c, u) = {} THEN [accepted |-> ~blocked] @@ joined
             ELSE [accepted |-> ~blocked] @@ same

\* CommunityPostListCreateView.perform_create: the membership part, then
\* serializer.save(...)
CreatePost(u, c) ==
    /\ Len(posts) < NPosts
    /\ community[c].exists
    /\ LET out == AutoJoin(u, c)
       IN  /\ out.accepted \/ out.memberships # memberships
           /\ out.community[c].members_count <= MaxMembers
           /\ memberships' = out.memberships
           /\ community' = out.community
           /\ posts' = IF out.accepted
                       THEN Append(posts, [community |-> c, author |-> u, score |-> 0,
                                           votes_total |-> 0, is_deleted |-> FALSE,
                                           is_edited |-> FALSE, created_at |-> clock,
                                           trending_score |-> ZeroScore])
                       ELSE posts
           /\ runs' = IF out.accepted THEN Disturbed ELSE runs
           /\ last' = IF out.accepted THEN NoRun ELSE last
    /\ UNCHANGED <<clock, votes, comments, mutes, clip, resp, probe, blocks, calls>>

\* PostDetailView.delete: soft delete, save(update_fields=[is_deleted, ...])
DeletePost(p) ==
    /\ p \in PostIds
    /\ posts' = [posts EXCEPT ![p].is_deleted = TRUE]
    /\ runs' = Disturbed
    /\ last' = NoRun
    /\ UNCHANGED <<clock, votes, comments, mutes, clip, resp, probe,
                 community, memberships, blocks, calls>>

\* PostDetailView.patch: save(update_fields=[title/body, is_edited, updated_at])
EditPost(p) ==
    /\ p \in PostIds
    /\ posts' = [posts EXCEPT ![p].is_edited = TRUE]
    /\ runs' = Disturbed
    /\ last' = NoRun
    /\ UNCHANGED <<clock, votes, comments, mutes, clip, resp, probe,
                 community, memberships, blocks, calls>>

\* PostVoteView.post counting a switched vote as one more vote
VotePost_SwitchCounts(u, p, value) ==
    /\ p \in PostIds
    /\ Approved(posts[p].community, u)
    /\ LET existing == {v \in votes : v.post = p /\ v.user = u}
           same == {v \in existing : v.value = value}
       IN  IF same # {}
           THEN /\ votes' = votes \ existing
                /\ posts' = [posts EXCEPT ![p].score = @ - value,
                                          ![p].votes_total = @ - 1]
           ELSE IF existing # {}
           THEN /\ votes' = (votes \ existing) \cup {[post |-> p, user |-> u, value |-> value]}
                /\ posts' = [posts EXCEPT
                               ![p].score = @ + (value - (CHOOSE v \in existing : TRUE).value),
                               ![p].votes_total = @ + 1]
           ELSE /\ votes' = votes \cup {[post |-> p, user |-> u, value |-> value]}
                /\ posts' = [posts EXCEPT ![p].score = @ + value,
                                          ![p].votes_total = @ + 1]
    /\ runs' = Disturbed
    /\ last' = NoRun
    /\ UNCHANGED <<clock, comments, mutes, clip, resp, probe,
                 community, memberships, blocks, calls>>

\* PostVoteView.post withdrawing a vote without votes_total=F('votes_total') - 1
VotePost_ToggleKeepsTotal(u, p, value) ==
    /\ p \in PostIds
    /\ Approved(posts[p].community, u)
    /\ LET existing == {v \in votes : v.post = p /\ v.user = u}
           same == {v \in existing : v.value = value}
       IN  IF same # {}
           THEN /\ votes' = votes \ existing
                /\ posts' = [posts EXCEPT ![p].score = @ - value]
           ELSE IF existing # {}
           THEN /\ votes' = (votes \ existing) \cup {[post |-> p, user |-> u, value |-> value]}
                /\ posts' = [posts EXCEPT
                               ![p].score = @ + (value - (CHOOSE v \in existing : TRUE).value)]
           ELSE /\ votes' = votes \cup {[post |-> p, user |-> u, value |-> value]}
                /\ posts' = [posts EXCEPT ![p].score = @ + value,
                                          ![p].votes_total = @ + 1]
    /\ runs' = Disturbed
    /\ last' = NoRun
    /\ UNCHANGED <<clock, comments, mutes, clip, resp, probe,
                 community, memberships, blocks, calls>>

\* PostVoteView.post; a user without an approved membership of the post's
\* community is refused
VotePost(u, p, value) ==
    /\ p \in PostIds
    /\ Approved(posts[p].community, u)
    /\ LET existing == {v \in votes : v.post = p /\ v.user = u}
           same == {v \in existing : v.value = value}
       IN  IF same # {}
           THEN \* toggle off
                /\ votes' = votes \ existing
                /\ posts' = [posts EXCEPT ![p].score = @ - value,
                                          ![p].votes_total = @ - 1]
           ELSE IF existing # {}
           THEN \* switch
                /\ votes' = (votes \ existing) \cup {[post |-> p, user |-> u, value |-> value]}
                /\ posts' = [posts EXCEPT
                               ![p].score = @ + (value - (CHOOSE v \in existing : TRUE).value)]
           ELSE \* new vote
                /\ votes' = votes \cup {[post |-> p, user |-> u, value |-> value]}
                /\ posts' = [posts EXCEPT ![p].score = @ + value,
                                          ![p].votes_total = @ + 1]
    /\ runs' = Disturbed
    /\ last' = NoRun
    /\ UNCHANGED <<clock, comments, mutes, clip, resp, probe,
                 community, memberships, blocks, calls>>

\* PostVoteView.post as the statements it sends, each committed on its own: the
\* lookup of the user's row (existing), the write of the row, and the F() update
\* of the post's counters. existing = 0 stands for no row found.
VoteBegin(k, u, p, value) ==
    /\ calls.vote[k].pc = "idle"
    /\ p \in PostIds
    /\ Approved(posts[p].community, u)
    /\ LET found == {v \in votes : v.post = p /\ v.user = u}
           existing == IF found = {} THEN 0 ELSE (CHOOSE v \in found : TRUE).value
       IN  calls' = [calls EXCEPT !.vote[k] =
                        [pc |-> "row", user |-> u, post |-> p, value |-> value,
                         existing |-> existing]]
    /\ UNCHANGED <<clock, posts, votes, comments, mutes, clip, runs, last, resp, probe,
                 community, memberships, blocks>>

\* existing.delete() removes the row if it is still there and passes if it is
\* not; existing.save(update_fields=...) raises when the row is gone;
\* PostVote.objects.create raises on the unique (post, user) pair
VoteRow(k) ==
    /\ calls.vote[k].pc = "row"
    /\ LET call == calls.vote[k]
           found == {v \in votes : v.post = call.post /\ v.user = call.user}
           row == [post |-> call.post, user |-> call.user, value |-> call.value]
       IN  IF call.existing = call.value
           THEN /\ votes' = votes \ found
                /\ calls' = [calls EXCEPT !.vote[k].pc = "counters"]
           ELSE IF call.existing # 0
           THEN IF found = {}
                THEN /\ votes' = votes
                     /\ calls' = [calls EXCEPT !.vote[k].pc = "failed"]
                ELSE /\ votes' = (votes \ found) \cup {row}
                     /\ calls' = [calls EXCEPT !.vote[k].pc = "counters"]
           ELSE IF found # {}
                THEN /\ votes' = votes
                     /\ calls' = [calls EXCEPT !.vote[k].pc = "failed"]
                ELSE /\ votes' = votes \cup {row}
                     /\ calls' = [calls EXCEPT !.vote[k].pc = "counters"]
    /\ runs' = Disturbed
    /\ last' = NoRun
    /\ UNCHANGED <<clock, posts, comments, mutes, clip, resp, probe,
                 community, memberships, blocks>>

\* Post.objects.filter(pk=...).update(score=F('score') +/- ..., votes_total=...);
\* the statement fails as a whole where votes_total, a PositiveIntegerField,
\* would become negative
VoteCounters(k) ==
    /\ calls.vote[k].pc = "counters"
    /\ LET call == calls.vote[k]
           p == call.post
           delta == IF call.existing = call.value THEN 0 - call.value
                    ELSE call.value - call.existing
           rows == IF call.existing = call.value THEN 0 - 1
                   ELSE IF call.existing = 0 THEN 1 ELSE 0
       IN  IF posts[p].votes_total + rows < 0
           THEN /\ posts' = posts
                /\ calls' = [calls EXCEPT !.vote[k].pc = "failed"]
           ELSE /\ posts' = [posts EXCEPT ![p].score = @ + delta,
                                          ![p].votes_total = @ + rows]
                /\ calls' = [calls EXCEPT !.vote[k].pc = "done"]
    /\ runs' = Disturbed
    /\ last' = NoRun
    /\ UNCHANGED <<clock, votes, comments, mutes, clip, resp, probe,
                 community, memberships, blocks>>

\* PostCommentListCreateView.perform_create: serializer.save(post, parent, ...)
\* parent = 0 is a top-level comment
CreateComment(u, p, parent) ==
    /\ p \in PostIds
    /\ Len(comments) < MaxComments
    /\ parent = 0 \/ (parent \in CommentIds /\ comments[parent].post = p)
    /\ LET c == posts[p].community
           out == AutoJoin(u, c)
       IN  /\ out.accepted \/ out.memberships # memberships
           /\ out.community[c].members_count <= MaxMembers
           /\ memberships' = out.memberships
           /\ community' = out.community
           /\ comments' = IF out.accepted
                          THEN Append(comments, [post |-> p, parent |-> parent,
                                                 is_deleted |-> FALSE])
                          ELSE comments
           /\ runs' = IF out.accepted THEN Disturbed ELSE runs
           /\ last' = IF out.accepted THEN NoRun ELSE last
    /\ UNCHANGED <<clock, posts, votes, mutes, clip, resp, probe, blocks, calls>>

\* a collection that stops after the direct children
Descendants_ChildrenOnly(p, ids, frontier) ==
    ids \cup {c \in CommentIds : comments[c].post = p /\ comments[c].parent \in frontier}

\* CommentDetailView.delete: breadth-first collection of the subtree
RECURSIVE Descendants(_, _, _)
Descendants(p, ids, frontier) ==
    LET children == {c \in CommentIds : comments[c].post = p /\ comments[c].parent \in frontier}
    IN  IF children = {} THEN ids
        ELSE Descendants(p, ids \cup children, children)

DeleteComment(c) ==
    /\ c \in CommentIds
    /\ LET ids == Descendants(comments[c].post, {c}, {c})
       IN  comments' = [i \in CommentIds |->
                          IF i \in ids THEN [comments[i] EXCEPT !.is_deleted = TRUE]
                          ELSE comments[i]]
    /\ runs' = Disturbed
    /\ last' = NoRun
    /\ UNCHANGED <<clock, posts, votes, mutes, clip, resp, probe,
                 community, memberships, blocks, calls>>

\* time passes
AdvanceClock ==
    /\ clock < MaxTicks * Tick
    /\ clock' = clock + Tick
    /\ last' = NoRun
    /\ UNCHANGED <<posts, votes, comments, mutes, clip, runs, resp, probe,
                 community, memberships, blocks, calls>>

\* ------------------------------------------ communities and memberships
JoinPolicies == {"open", "approval", "invite", "login"}

\* _require_owner_or_admin_mod / _require_owner
CanModerate(c, u) ==
    \E m \in MembershipsOf(c, u) :
        m.status = "approved" /\ m.role \in {"owner", "admin_moderator"}
IsOwner(c, u) ==
    \E m \in MembershipsOf(c, u) : m.status = "approved" /\ m.role = "owner"

\* update(members_count=F('members_count') - n) on the rows with members_count >= n
Decremented(c, n) ==
    IF community[c].members_count >= n
    THEN [community EXCEPT ![c].members_count = @ - n]
    ELSE community

\* CommunityCreateSerializer.create: the row with members_count 1, then the
\* creator's OWNER membership
CreateCommunity(u, c, policy) ==
    /\ u \in Users
    /\ ~community[c].exists
    /\ community' = [community EXCEPT ![c] =
                        [exists |-> TRUE, join_policy |-> policy, members_count |-> 1]]
    /\ memberships' = memberships \cup {Membership(c, u, "owner", "approved")}
    /\ UNCHANGED <<clock, posts, votes, comments, mutes, clip, runs, last, resp, probe,
                   blocks, calls>>

\* JoinCommunityView.post: a guest joins OPEN communities only; APPROVAL files
\* a PENDING row; LOGIN, and every other policy by the last branch, joins at once
JoinCommunity(u, c) ==
    /\ community[c].exists
    /\ u \in Guests => community[c].join_policy = "open"
    /\ <<c, u>> \notin blocks
    /\ MembershipsOf(c, u) = {}
    /\ IF community[c].join_policy = "approval"
       THEN /\ memberships' = memberships \cup {Membership(c, u, "member", "pending")}
            /\ community' = community
       ELSE /\ community[c].members_count < MaxMembers
            /\ memberships' = memberships \cup {Membership(c, u, "member", "approved")}
            /\ community' = [community EXCEPT ![c].members_count = @ + 1]
    /\ UNCHANGED <<clock, posts, votes, comments, mutes, clip, runs, last, resp, probe,
                   blocks, calls>>

\* LeaveCommunityView.post
LeaveCommunity(u, c) ==
    /\ community[c].exists
    /\ u \in Guests => community[c].join_policy = "open"
    /\ \E m \in MembershipsOf(c, u) :
          /\ m.role # "owner"
          /\ community' = IF m.status = "approved" THEN Decremented(c, 1) ELSE community
          /\ memberships' = memberships \ {m}
    /\ UNCHANGED <<clock, posts, votes, comments, mutes, clip, runs, last, resp, probe,
                   blocks, calls>>

\* RemoveMemberView.post
RemoveMember(actor, c, target) ==
    /\ community[c].exists
    /\ CanModerate(c, actor)
    /\ target # actor
    /\ \E m \in MembershipsOf(c, target) :
          /\ m.role # "owner"
          /\ community' = IF m.status = "approved" THEN Decremented(c, 1) ELSE community
          /\ memberships' = memberships \ {m}
    /\ UNCHANGED <<clock, posts, votes, comments, mutes, clip, runs, last, resp, probe,
                   blocks, calls>>

\* BlockMemberView.post: the membership, if any, is removed and the block stored
BlockMember(actor, c, target) ==
    /\ community[c].exists
    /\ CanModerate(c, actor)
    /\ target # actor
    /\ \A m \in MembershipsOf(c, target) : m.role # "owner"
    /\ community' = IF Approved(c, target) THEN Decremented(c, 1) ELSE community
    /\ memberships' = memberships \ MembershipsOf(c, target)
    /\ blocks' = blocks \cup {<<c, target>>}
    /\ UNCHANGED <<clock, posts, votes, comments, mutes, clip, runs, last, resp, probe,
                   calls>>

\* ApproveRequestView.post
ApproveRequest(actor, c, target) ==
    /\ community[c].exists
    /\ IsOwner(c, actor)
    /\ community[c].members_count < MaxMembers
    /\ \E m \in MembershipsOf(c, target) :
          /\ m.status = "pending"
          /\ memberships' = (memberships \ {m}) \cup {[m EXCEPT !.status = "approved"]}
          /\ community' = [community EXCEPT ![c].members_count = @ + 1]
    /\ UNCHANGED <<clock, posts, votes, comments, mutes, clip, runs, last, resp, probe,
                   blocks, calls>>

\* RejectRequestView.post
RejectRequest(actor, c, target) ==
    /\ community[c].exists
    /\ IsOwner(c, actor)
    /\ \E m \in MembershipsOf(c, target) :
          /\ m.status = "pending"
          /\ memberships' = memberships \ {m}
    /\ UNCHANGED <<clock, posts, votes, comments, mutes, clip, runs, last, resp, probe,
                   community, blocks, calls>>

\* CommunityDetailView.perform_update with a join_policy: leaving APPROVAL drops
\* the pending rows; leaving OPEN drops the approved guest rows and lowers
\* members_count by their number; serializer.save() then saves the instance the
\* view loaded before those statements, every column of it, members_count
\* included
UpdateCommunity(actor, c, policy) ==
    /\ community[c].exists
    /\ CanModerate(c, actor)
    /\ LET old == community[c].join_policy
           pending == {m \in memberships : m.community = c /\ m.status = "pending"}
           guests == {m \in memberships : /\ m.community = c
                                          /\ m.status = "approved"
                                          /\ m.user \in Guests}
           dropped == (IF old = "approval" /\ policy # "approval" THEN pending ELSE {})
                        \cup (IF old = "open" /\ policy # "open" THEN guests ELSE {})
       IN  /\ memberships' = memberships \ dropped
           /\ community' = [community EXCEPT ![c].join_policy = policy]
    /\ UNCHANGED <<clock, posts, votes, comments, mutes, clip, runs, last, resp, probe,
                   blocks, calls>>

\* transfer_guest_user_data, called by MeView.patch for a login user whose
\* request still carries a guest token: posts change author; a vote, mute or
\* membership of the guest moves to the user unless the user has one for the
\* same post, target or community, in which case the guest's row is deleted;
\* guest_user.delete() then removes what still refers to the guest
TransferGuest(guest, user) ==
    /\ guest \in Guests
    /\ user \in Users
    /\ posts' = [p \in PostIds |->
                   IF posts[p].author = guest THEN [posts[p] EXCEPT !.author = user]
                   ELSE posts[p]]
    /\ votes' = {v \in votes : v.user # guest}
                  \cup {[v EXCEPT !.user = user] :
                          v \in {w \in votes :
                                   /\ w.user = guest
                                   /\ ~\E x \in votes : x.post = w.post /\ x.user = user}}
    /\ mutes' = {m \in mutes : m[1] # guest /\ m[2] # guest}
                  \cup {<<user, m[2]>> : m \in {w \in mutes : w[1] = guest /\ w[2] # guest}}
    /\ memberships' = {m \in memberships : m.user # guest}
                        \cup {[m EXCEPT !.user = user] :
                                m \in {w \in memberships :
                                         /\ w.user = guest
                                         /\ MembershipsOf(w.community, user) = {}}}
    /\ blocks' = {b \in blocks : b[2] # guest}
    /\ runs' = Disturbed
    /\ last' = NoRun
    /\ UNCHANGED <<clock, comments, clip, resp, probe, community, calls>>

\* ---------------------------------------- the batch job, Command.handle
\* qs: non-deleted posts of public communities created at or after the cutoff
\* (Post.trending_score is the column of migration 0023; the queryset is taken
\* to load the rows it filters, select_related and only() notwithstanding)
Eligible(cutoff_time) ==
    {p \in PostIds : /\ ~posts[p].is_deleted
                     /\ Visibility(posts[p].community) = "public"
                     /\ posts[p].created_at >= cutoff_time}

\* The rows of an unordered queryset, in an order the database is free to pick.
Orderings(S) ==
    {o \in [1..Cardinality(S) -> S] : \A i, j \in 1..Cardinality(S) : i # j => o[i] # o[j]}

\* qs[offset:offset + batch_size] of the rows in order o
Slice(o, offset, batch_size) ==
    {o[i] : i \in {j \in DOMAIN o : j > offset /\ j <= offset + batch_size}}

\* updates without the comparison: every post of the page, whatever it stores
PageUpdates_Always(batch, now, half_life_hours) ==
    {<<p, BatchScore(posts[p], active_comments(p), now, half_life_hours)>> : p \in batch}

\* updates: the posts of the page whose stored score differs from the computed one
PageUpdates(batch, now, half_life_hours) ==
    {u \in {<<p, BatchScore(posts[p], active_comments(p), now, half_life_hours)>> : p \in batch} :
        DiffExceeds(posts[u[1]].trending_score, u[2])}

\* the position after a page: the next page, or the cleanup when range() is exhausted
AfterPage(run) ==
    IF run.offset + run.batch_size < run.total_count THEN "paging" ELSE "cleanup"

\* what a finished run leaves in last
LastOf(run) ==
    IF run.disturbed THEN NoRun
    ELSE [kind |-> "run", now |-> run.now, lookback_hours |-> run.lookback_hours,
          half_life_hours |-> run.half_life_hours]

\* a start that waits for a lock the other invocations hold while they run
BatchStart_Exclusive(r, lookback_hours, half_life_hours, batch_size) ==
    /\ runs[r].pc = "idle"
    /\ \A q \in DOMAIN runs \ {r} : runs[q].pc = "idle"
    /\ LET now == clock
           cutoff_time == now - lookback_hours
           total_count == Cardinality(Eligible(cutoff_time))
           run == [pc |-> IF total_count = 0 THEN "done" ELSE "paging",
                   now |-> now, cutoff_time |-> cutoff_time,
                   lookback_hours |-> lookback_hours,
                   half_life_hours |-> half_life_hours, batch_size |-> batch_size,
                   total_count |-> total_count, offset |-> 0, updates |-> {},
                   batch_len |-> 0, updated_count |-> 0, processed_count |-> 0,
                   wrote |-> 0,
                   repeat |-> /\ last # NoRun
                              /\ last.now = now
                              /\ last.lookback_hours = lookback_hours
                              /\ last.half_life_hours = half_life_hours,
                   disturbed |-> FALSE, pages |-> << >>]
       IN  /\ runs' = [runs EXCEPT ![r] = run]
           /\ last' = IF total_count = 0 THEN LastOf(run) ELSE NoRun
    /\ UNCHANGED <<clock, posts, votes, comments, mutes, clip, resp, probe,
                 community, memberships, blocks, calls>>

\* handle() up to the loop: options, now, cutoff, qs.count(), the early return
BatchStart(r, lookback_hours, half_life_hours, batch_size) ==
    /\ runs[r].pc = "idle"
    /\ LET now == clock
           cutoff_time == now - lookback_hours
           total_count == Cardinality(Eligible(cutoff_time))
           run == [pc |-> IF total_count = 0 THEN "done" ELSE "paging",
                   now |-> now, cutoff_time |-> cutoff_time,
                   lookback_hours |-> lookback_hours,
                   half_life_hours |-> half_life_hours, batch_size |-> batch_size,
                   total_count |-> total_count, offset |-> 0, updates |-> {},
                   batch_len |-> 0, updated_count |-> 0, processed_count |-> 0,
                   wrote |-> 0,
                   repeat |-> /\ last # NoRun
                              /\ last.now = now
                              /\ last.lookback_hours = lookback_hours
                              /\ last.half_life_hours = half_life_hours,
                   disturbed |-> FALSE, pages |-> << >>]
       IN  /\ runs' = [runs EXCEPT ![r] = run]
           /\ last' = IF total_count = 0 THEN LastOf(run) ELSE NoRun
    /\ UNCHANGED <<clock, posts, votes, comments, mutes, clip, resp, probe,
                 community, memberships, blocks, calls>>

\* a loop iteration that scores the page at the time of the iteration
BatchReadPage_LiveClock(r) ==
    /\ runs[r].pc = "paging"
    /\ \E o \in Orderings(Eligible(runs[r].cutoff_time)) :
         LET run == runs[r]
             batch == Slice(o, run.offset, run.batch_size)
             updates == PageUpdates(batch, clock, run.half_life_hours)
         IN  runs' = [runs EXCEPT ![r] =
                IF updates # {}
                THEN [run EXCEPT !.pc = "writing", !.updates = updates,
                                 !.batch_len = Cardinality(batch),
                                 !.pages = Append(@, batch)]
                ELSE [run EXCEPT !.pc = AfterPage(run),
                                 !.offset = @ + run.batch_size,
                                 !.processed_count = @ + Cardinality(batch),
                                 !.pages = Append(@, batch)]]
    /\ UNCHANGED <<clock, posts, votes, comments, mutes, clip, last, resp, probe,
                 community, memberships, blocks, calls>>

\* one iteration of the loop up to the transaction: read the page, score it
\* (pages keeps the rows each page query returned, for the paging properties)
BatchReadPage(r) ==
    /\ runs[r].pc = "paging"
    /\ \E o \in Orderings(Eligible(runs[r].cutoff_time)) :
         LET run == runs[r]
             batch == Slice(o, run.offset, run.batch_size)
             updates == PageUpdates(batch, run.now, run.half_life_hours)
         IN  runs' = [runs EXCEPT ![r] =
                IF updates # {}
                THEN [run EXCEPT !.pc = "writing", !.updates = updates,
                                 !.batch_len = Cardinality(batch),
                                 !.pages = Append(@, batch)]
                ELSE [run EXCEPT !.pc = AfterPage(run),
                                 !.offset = @ + run.batch_size,
                                 !.processed_count = @ + Cardinality(batch),
                                 !.pages = Append(@, batch)]]
    /\ UNCHANGED <<clock, posts, votes, comments, mutes, clip, last, resp, probe,
                 community, memberships, blocks, calls>>

\* with transaction.atomic(): one UPDATE per (post_id, score) of updates
BatchWritePage(r) ==
    /\ runs[r].pc = "writing"
    /\ LET run == runs[r]
       IN  /\ posts' = [p \in PostIds |->
                          IF \E u \in run.updates : u[1] = p
                          THEN [posts[p] EXCEPT !.trending_score =
                                  (CHOOSE u \in run.updates : u[1] = p)[2]]
                          ELSE posts[p]]
           /\ runs' = [runs EXCEPT ![r] =
                         [run EXCEPT !.pc = AfterPage(run),
                                     !.offset = @ + run.batch_size,
                                     !.updates = {},
                                     !.batch_len = 0,
                                     !.updated_count = @ + Cardinality(run.updates),
                                     !.processed_count = @ + run.batch_len,
                                     !.wrote = @ + Cardinality(run.updates)]]
    /\ UNCHANGED <<clock, votes, comments, mutes, clip, last, resp, probe,
                 community, memberships, blocks, calls>>

\* the posts the cleanup resets
Stale(cutoff_time) ==
    {p \in PostIds : /\ ~posts[p].is_deleted
                     /\ Visibility(posts[p].community) = "public"
                     /\ posts[p].created_at < cutoff_time
                     /\ ScoreLT(ZeroScore, posts[p].trending_score)}

\* after the loop: the bulk reset of the posts older than the window
BatchCleanup(r) ==
    /\ runs[r].pc = "cleanup"
    /\ LET old == Stale(runs[r].cutoff_time)
       IN  /\ posts' = [p \in PostIds |->
                          IF p \in old THEN [posts[p] EXCEPT !.trending_score = ZeroScore]
                          ELSE posts[p]]
           /\ runs' = [runs EXCEPT ![r].pc = "done",
                                   ![r].wrote = @ + Cardinality(old)]
           /\ last' = LastOf(runs[r])
    /\ UNCHANGED <<clock, votes, comments, mutes, clip, resp, probe,
                 community, memberships, blocks, calls>>

\* a stop that leaves one UPDATE of the open transaction behind
BatchAbort_Torn(r) ==
    /\ runs[r].pc \in {"paging", "writing", "cleanup"}
    /\ runs' = [runs EXCEPT ![r].pc = "aborted", ![r].updates = {}, ![r].batch_len = 0]
    /\ posts' = IF runs[r].updates = {} THEN posts
                ELSE LET u == CHOOSE u \in runs[r].updates : TRUE
                     IN  [posts EXCEPT ![u[1]].trending_score = u[2]]
    /\ UNCHANGED <<clock, votes, comments, mutes, clip, last, resp, probe,
                 community, memberships, blocks, calls>>

\* the process is stopped (a crash, a signal) before it finishes; a transaction
\* that was open is rolled back
BatchAbort(r) ==
    /\ runs[r].pc \in {"paging", "writing", "cleanup"}
    /\ runs' = [runs EXCEPT ![r].pc = "aborted", ![r].updates = {}, ![r].batch_len = 0]
    /\ UNCHANGED <<clock, posts, votes, comments, mutes, clip, last, resp, probe,
                 community, memberships, blocks, calls>>

\* the process has ended; the command can be invoked again
BatchExit(r) ==
    /\ runs[r].pc \in {"done", "aborted"}
    /\ runs' = [runs EXCEPT ![r] = IdleRun]
    /\ UNCHANGED <<clock, posts, votes, comments, mutes, clip, last, resp, probe,
                 community, memberships, blocks, calls>>

\* ------------------------------------------------------ listing requests
\* MuteCreateView.post: UserMute.objects.get_or_create(user, target)
MuteUser(u, target) ==
    /\ u \in Users /\ target \in Users
    /\ target # u
    /\ mutes' = mutes \cup {<<u, target>>}
    /\ UNCHANGED <<clock, posts, votes, comments, clip, runs, last, resp, probe,
                 community, memberships, blocks, calls>>

\* A query parameter is absent, present but not a number, or a number.
Missing == [kind |-> "missing"]
Malformed == [kind |-> "malformed"]
Num(n) == [kind |-> "num", val |-> n]
\* int(request.query_params.get(name, default)) with the except branch
ParseParam(param, default) == IF param.kind = "num" THEN param.val ELSE default

\* UserMute.objects.filter(user=user).values_list('target_id')
muted_ids(user) == {m[2] : m \in {x \in mutes : x[1] = user}}

AllPostIds == [i \in 1..Len(posts) |-> i]

\* SamplerLimit without the lower end of the clamp
SamplerLimit_NoFloor(limit_param) ==
    Min(ParseParam(limit_param, DEFAULT_LIMIT), MAX_LIMIT)

\* TrendingPostListView.get: limit, clamped into [1, MAX_LIMIT]
SamplerLimit(limit_param) ==
    Max(1, Min(ParseParam(limit_param, DEFAULT_LIMIT), MAX_LIMIT))

\* TrendingPostListView.get: half_life_hours, 6.0 when not positive
SamplerHalfLife(half_life_param) ==
    LET half_life == ParseParam(half_life_param, 6)
    IN  IF half_life <= 0 THEN 6 ELSE half_life

\* TrendingPostListView.get: lookback_hours, max(0.0, .)
SamplerLookback(lookback_param) ==
    Max(0, ParseParam(lookback_param, DEFAULT_LOOKBACK))

\* SamplerCandidate without the filter on the community's visibility
SamplerCandidate_AnyVisibility(p, req, now) ==
    LET lookback_hours == SamplerLookback(req.lookback_hours)
    IN  /\ ~posts[p].is_deleted
        /\ lookback_hours > 0 => posts[p].created_at >= now - lookback_hours
        /\ (req.user # Anonymous /\ req.is_authenticated)
             => posts[p].author \notin muted_ids(req.user)

\* TrendingPostListView.get: the filtered queryset
SamplerCandidate(p, req, now) ==
    LET lookback_hours == SamplerLookback(req.lookback_hours)
    IN  /\ ~posts[p].is_deleted
        /\ Visibility(posts[p].community) = "public"
        /\ lookback_hours > 0 => posts[p].created_at >= now - lookback_hours
        /\ (req.user # Anonymous /\ req.is_authenticated)
             => posts[p].author \notin muted_ids(req.user)

\* SamplerSample without the cut at SAMPLE_SIZE
SamplerSample_NoCut(req, now, tie) ==
    LET cand == SelectSeq(AllPostIds, LAMBDA p : SamplerCandidate(p, req, now))
    IN  SortSeq(cand, LAMBDA a, b :
                      \/ posts[a].created_at > posts[b].created_at
                      \/ posts[a].created_at = posts[b].created_at /\ tie * a < tie * b)

\* qs.order_by('-created_at')[:SAMPLE_SIZE]; rows with equal created_at come in
\* an order the database picks: by ascending id (tie = 1) or descending (tie = -1)
SamplerSample(req, now, tie) ==
    LET cand == SelectSeq(AllPostIds, LAMBDA p : SamplerCandidate(p, req, now))
        ordered == SortSeq(cand, LAMBDA a, b :
                      \/ posts[a].created_at > posts[b].created_at
                      \/ posts[a].created_at = posts[b].created_at /\ tie * a < tie * b)
    IN  SubSeq(ordered, 1, Min(Len(ordered), SAMPLE_SIZE))

\* SamplerRank without the sort: the first posts of the sample as they come
SamplerRank_Unsorted(sample, req, now) ==
    LET half_life == SamplerHalfLife(req.half_life_hours)
        scored_posts == [i \in DOMAIN sample |->
                           [trending |-> SamplerScore(posts[sample[i]], active_comments(sample[i]),
                                                      now, half_life),
                            post |-> sample[i], pos |-> i]]
    IN  SubSeq(scored_posts, 1, Min(Len(scored_posts), SamplerLimit(req.limit)))

\* the scoring loop, the stable descending sort, the cut at limit
SamplerRank(sample, req, now) ==
    LET half_life == SamplerHalfLife(req.half_life_hours)
        scored_posts == [i \in DOMAIN sample |->
                           [trending |-> SamplerScore(posts[sample[i]], active_comments(sample[i]),
                                                      now, half_life),
                            post |-> sample[i], pos |-> i]]
        sorted == SortSeq(scored_posts, LAMBDA a, b :
                      \/ ScoreLT(b.trending, a.trending)
                      \/ a.trending = b.trending /\ a.pos < b.pos)
    IN  SubSeq(sorted, 1, Min(Len(sorted), SamplerLimit(req.limit)))

Requests(users, limits, half_lives, lookbacks) ==
    [user : users, is_authenticated : BOOLEAN, limit : limits,
     half_life_hours : half_lives, lookback_hours : lookbacks]

\* TrendingPostListView.get saving the score it attaches to each listed post
TrendingGet_Persisting(req, tie) ==
    /\ LET now == clock
           sample == SamplerSample(req, now, tie)
           top_posts == SamplerRank(sample, req, now)
           listed == {top_posts[i].post : i \in DOMAIN top_posts}
           attached(p) == (CHOOSE x \in {top_posts[i] : i \in DOMAIN top_posts} : x.post = p).trending
       IN  /\ resp' = [kind |-> "trending", request |-> req, now |-> now,
                       scored |-> Len(sample),
                       ids |-> [i \in DOMAIN top_posts |-> top_posts[i].post],
                       trending_scores |-> [i \in DOMAIN top_posts |-> top_posts[i].trending]]
           /\ posts' = [p \in PostIds |->
                          IF p \in listed THEN [posts[p] EXCEPT !.trending_score = attached(p)]
                          ELSE posts[p]]
    /\ UNCHANGED <<clock, votes, comments, mutes, clip, runs, last, probe,
                 community, memberships, blocks, calls>>

\* TrendingPostListView.get
TrendingGet(req, tie) ==
    /\ LET now == clock
           sample == SamplerSample(req, now, tie)
           top_posts == SamplerRank(sample, req, now)
       IN  resp' = [kind |-> "trending", request |-> req, now |-> now,
                    scored |-> Len(sample),
                    ids |-> [i \in DOMAIN top_posts |-> top_posts[i].post],
                    trending_scores |-> [i \in DOMAIN top_posts |-> top_posts[i].trending]]
    /\ UNCHANGED <<clock, posts, votes, comments, mutes, clip, runs, last, probe,
                 community, memberships, blocks, calls>>

\* TrendingPostListView.get up to now = timezone.now(): the parameters are
\* parsed and the instant is taken
TrendingBegin(req) ==
    /\ calls.trending.pc = "idle"
    /\ calls' = [calls EXCEPT !.trending = [pc |-> "query", request |-> req, now |-> clock]]
    /\ UNCHANGED <<clock, posts, votes, comments, mutes, clip, runs, last, resp, probe,
                 community, memberships, blocks>>

\* the rest of TrendingPostListView.get: the query is run, the rows are scored
\* and sorted, all with the instant taken before (sent is the time of the answer)
TrendingFinish(tie) ==
    /\ calls.trending.pc = "query"
    /\ LET req == calls.trending.request
           now == calls.trending.now
           sample == SamplerSample(req, now, tie)
           top_posts == SamplerRank(sample, req, now)
       IN  resp' = [kind |-> "trending", request |-> req, now |-> now,
                    scored |-> Len(sample),
                    ids |-> [i \in DOMAIN top_posts |-> top_posts[i].post],
                    trending_scores |-> [i \in DOMAIN top_posts |-> top_posts[i].trending],
                    sent |-> clock]
    /\ calls' = [calls EXCEPT !.trending = NoCall]
    /\ UNCHANGED <<clock, posts, votes, comments, mutes, clip, runs, last, probe,
                 community, memberships, blocks>>

\* CommunityClipPostView.post: an owner or admin moderator pins a post of the community
ClipPost(c, p) ==
    /\ p \in PostIds
    /\ posts[p].community = c
    /\ clip' = [clip EXCEPT ![c] = p]
    /\ UNCHANGED <<clock, posts, votes, comments, mutes, runs, last, resp, probe,
                 community, memberships, blocks, calls>>

\* CommunityClipPostView.delete: the pin is removed when it is on that post
UnclipPost(c, p) ==
    /\ p \in PostIds
    /\ posts[p].community = c
    /\ clip' = IF clip[c] = p THEN [clip EXCEPT ![c] = 0] ELSE clip
    /\ UNCHANGED <<clock, posts, votes, comments, mutes, runs, last, resp, probe,
                 community, memberships, blocks, calls>>

\* the community listing sorting the clipped post among the others
CommunityTrendingGet_ClipSorted(user, c, o) ==
    /\ LET muted == IF user # Anonymous THEN muted_ids(user) ELSE {}
           inqs(p) == /\ posts[p].community = c
                      /\ ~posts[p].is_deleted
                      /\ posts[p].author \notin muted
           now == clock
           listed == SelectSeq(o, inqs)
           scored == [i \in DOMAIN listed |->
                        [trending |-> CommunityScore(posts[listed[i]], active_comments(listed[i]), now),
                         post |-> listed[i], pos |-> i]]
           result == SortSeq(scored, LAMBDA a, b :
                        \/ ScoreLT(b.trending, a.trending)
                        \/ a.trending = b.trending /\ a.pos < b.pos)
       IN  resp' = [kind |-> "community", community |-> c, user |-> user, now |-> now,
                    scored |-> Len(listed),
                    ids |-> [i \in DOMAIN result |-> result[i].post],
                    trending_scores |-> [i \in DOMAIN result |-> result[i].trending]]
    /\ UNCHANGED <<clock, posts, votes, comments, mutes, clip, runs, last, probe,
                 community, memberships, blocks, calls>>

\* CommunityPostListCreateView.get_queryset with sort == 'trending'; o is the
\* order in which the unordered queryset returns the rows
CommunityTrendingGet(user, c, o) ==
    /\ LET muted == IF user # Anonymous THEN muted_ids(user) ELSE {}
           inqs(p) == /\ posts[p].community = c
                      /\ ~posts[p].is_deleted
                      /\ posts[p].author \notin muted
           now == clock
           listed == SelectSeq(o, inqs)
           scored == [i \in DOMAIN listed |->
                        [trending |-> CommunityScore(posts[listed[i]], active_comments(listed[i]), now),
                         post |-> listed[i], pos |-> i]]
           other_posts == SelectSeq(scored, LAMBDA x : x.post # clip[c])
           clipped == SelectSeq(scored, LAMBDA x : x.post = clip[c])
           sorted == SortSeq(other_posts, LAMBDA a, b :
                        \/ ScoreLT(b.trending, a.trending)
                        \/ a.trending = b.trending /\ a.pos < b.pos)
           result == clipped \o sorted
       IN  resp' = [kind |-> "community", community |-> c, user |-> user, now |-> now,
                    scored |-> Len(listed),
                    ids |-> [i \in DOMAIN result |-> result[i].post],
                    trending_scores |-> [i \in DOMAIN result |-> result[i].trending]]
    /\ UNCHANGED <<clock, posts, votes, comments, mutes, clip, runs, last, probe,
                 community, memberships, blocks, calls>>

\* ------------------------------------------------------------------ Next
DefaultRequests == Requests({Anonymous}, {Missing}, {Missing}, {Missing})
BatchLookbacks == {6}
BatchHalfLives == {6}

\* the batch job next to the requests that change what it reads
Writers ==
    \/ \E c \in Communities : CreatePost(1, c)
    \/ \E p \in PostIds : DeletePost(p)
    \/ \E p \in PostIds, v \in VoteValues : VotePost(1, p, v)
    \/ \E p \in PostIds, parent \in {0} \cup CommentIds : CreateComment(1, p, parent)
    \/ \E c \in CommentIds : DeleteComment(c)
    \/ AdvanceClock

Batch ==
    \/ \E r \in DOMAIN runs, lb \in BatchLookbacks, hl \in BatchHalfLives, bs \in BatchSizeInputs :
          BatchStart(r, lb, hl, bs)
    \/ \E r \in DOMAIN runs : BatchReadPage(r)
    \/ \E r \in DOMAIN runs : BatchWritePage(r)
    \/ \E r \in DOMAIN runs : BatchCleanup(r)
    \/ \E r \in DOMAIN runs : BatchAbort(r)
    \/ \E r \in DOMAIN runs : BatchExit(r)

\* no invocation of the command is in progress
Quiet == \A r \in DOMAIN runs : runs[r].pc = "idle"

\* Spec: the job runs while no request writes (the scheduler starts it in a quiet
\* hour); requests are served between the runs.
Next == (Quiet /\ Writers) \/ Batch

Spec == Init /\ [][Next]_vars

\* ------------------------------------------- the score function on its own
\* SpecScore: one call of calculate_trending_score per instant, on inputs drawn
\* from bounded sets; now may lie before created_at.
CommentWeightInputs == {0, 7, 10}
None == <<>>

\* 8 upvotes and 2 downvotes (votes_total 10, score 6), 4 comments of weight
\* 0.7, scored 6 hours after creation (t1) and at creation (t2), half-life 6
WorkedExample ==
    [kind |-> "score", upvotes |-> 8, downvotes |-> 2, comment_count |-> 4,
     comment_weight10 |-> DEFAULT_COMMENT_WEIGHT10, created_at |-> 0,
     t1 |-> DEFAULT_HALF_LIFE, t2 |-> 0, half_life_hours |-> DEFAULT_HALF_LIFE,
     r1 |-> None, r2 |-> None]

InitScore ==
    /\ clock = 0
    /\ posts = << >>
    /\ votes = {}
    /\ comments = << >>
    /\ mutes = {}
    /\ clip = [c \in Communities |-> 0]
    /\ Settled
    /\ runs = [r \in {1} |-> IdleRun]
    /\ last = NoRun
    /\ resp = NoResp
    /\ probe \in [kind : {"score"},
                  upvotes : 0..MaxVotes, downvotes : 0..MaxVotes,
                  comment_count : 0..MaxCount, comment_weight10 : CommentWeightInputs,
                  created_at : Times, t1 : Times, t2 : Times,
                  half_life_hours : HalfLifeInputs,
                  r1 : {None}, r2 : {None}]
                 \cup {WorkedExample}

ScoreAt(now) ==
    calculate_trending_score(probe.upvotes, probe.downvotes, probe.created_at,
                             probe.comment_count, probe.comment_weight10, now,
                             probe.half_life_hours)

EvalAtT1 ==
    /\ probe.r1 = None
    /\ probe' = [probe EXCEPT !.r1 = ScoreAt(probe.t1)]
    /\ UNCHANGED <<clock, posts, votes, comments, mutes, clip, runs, last, resp,
                 community, memberships, blocks, calls>>

EvalAtT2 ==
    /\ probe.r2 = None
    /\ probe' = [probe EXCEPT !.r2 = ScoreAt(probe.t2)]
    /\ UNCHANGED <<clock, posts, votes, comments, mutes, clip, runs, last, resp,
                 community, memberships, blocks, calls>>

NextScore == EvalAtT1 \/ EvalAtT2

SpecScore == InitScore /\ [][NextScore]_vars

\* ------------------------------------------------------- votes on their own
\* SpecVotes: posts are created and every user votes, switches and withdraws.
NextVotes ==
    \/ \E c \in Communities : CreatePost(1, c)
    \/ \E u \in Users, p \in PostIds, v \in VoteValues : VotePost(u, p, v)

SpecVotes == Init /\ [][NextVotes]_vars

\* ------------------------------------------- the three engines on one state
\* SpecFormula: one public post with counters a sequence of votes can produce
\* and some comments, deleted or not; the sampler, the community listing and
\* the batch job then run at one instant.
VoteStates ==
    {st \in [upvotes : 0..MaxVotes, downvotes : 0..MaxVotes] :
        st.upvotes + st.downvotes <= NUsers}

\* the vote rows behind a post with the given numbers of up and down votes
VoteRows(p, st) ==
    {[post |-> p, user |-> u, value |-> 1] : u \in 1..st.upvotes}
      \cup {[post |-> p, user |-> u, value |-> 0 - 1] :
               u \in (st.upvotes + 1)..(st.upvotes + st.downvotes)}

RECURSIVE SeqsUpTo(_, _)
SeqsUpTo(S, n) ==
    IF n = 0 THEN {<< >>}
    ELSE LET shorter == SeqsUpTo(S, n - 1)
         IN  shorter \cup {Append(q, x) : q \in {t \in shorter : Len(t) = n - 1}, x \in S}

InitFormula ==
    /\ clock \in {0, MaxTicks * Tick}
    /\ \E st \in VoteStates, created_at \in Times :
          /\ posts = <<[community |-> 1, author |-> 1,
                        score |-> st.upvotes - st.downvotes,
                        votes_total |-> st.upvotes + st.downvotes,
                        is_deleted |-> FALSE, is_edited |-> FALSE,
                        created_at |-> created_at, trending_score |-> ZeroScore]>>
          /\ votes = VoteRows(1, st)
    /\ comments \in SeqsUpTo([post : {1}, parent : {0}, is_deleted : BOOLEAN], MaxCount)
    /\ mutes = {}
    /\ clip = [c \in Communities |-> 0]
    /\ Settled
    /\ runs = [r \in {1} |-> IdleRun]
    /\ last = NoRun
    /\ resp = NoResp
    /\ probe = NoProbe

FormulaRequests ==
    {req \in Requests({Anonymous}, {Num(MAX_LIMIT)},
                       {Missing} \cup {Num(h) : h \in HalfLifeInputs}, {Num(0)}) :
        ~req.is_authenticated}

NextFormula ==
    \/ \E req \in FormulaRequests, tie \in {1} : TrendingGet(req, tie)
    \/ \E o \in Orderings(PostIds) : CommunityTrendingGet(Anonymous, 1, o)
    \/ \E r \in DOMAIN runs, hl \in HalfLifeInputs :
          BatchStart(r, DEFAULT_LOOKBACK, hl, 1)
    \/ \E r \in DOMAIN runs : BatchReadPage(r)
    \/ \E r \in DOMAIN runs : BatchWritePage(r)
    \/ \E r \in DOMAIN runs : BatchCleanup(r)

SpecFormula == InitFormula /\ [][NextFormula]_vars

\* ------------------------------------------------- the sampler on a corpus
\* SpecSampler: a corpus of up to MaxCorpus posts, more than SAMPLE_SIZE of them
\* candidates; every 50th post is deleted, every 67th is in the private
\* community, every second one has an upvote, every third one a comment.
MaxCorpus == 210
SmallCorpus == 9
CorpusSizes == (0..SmallCorpus) \cup {MAX_LIMIT + 2, MaxCorpus}

CorpusPost(i) ==
    [community |-> IF i % 67 = 0 THEN 2 ELSE 1, author |-> 1 + (i % NUsers),
     score |-> IF i % 2 = 0 THEN 1 ELSE 0, votes_total |-> IF i % 2 = 0 THEN 1 ELSE 0,
     is_deleted |-> (i % 50 = 0), is_edited |-> FALSE,
     created_at |-> Tick * (i % (MaxTicks + 1)), trending_score |-> ZeroScore]

InitSampler ==
    /\ clock = MaxTicks * Tick
    /\ \E n \in CorpusSizes :
          /\ posts = [i \in 1..n |-> CorpusPost(i)]
          /\ votes = {[post |-> i, user |-> 1, value |-> 1] : i \in {k \in 1..n : k % 2 = 0}}
          /\ comments = [j \in 1..(n \div 3) |-> [post |-> 3 * j, parent |-> 0, is_deleted |-> FALSE]]
    /\ mutes = {}
    /\ clip = [c \in Communities |-> 0]
    /\ Settled
    /\ runs = [r \in {1} |-> IdleRun]
    /\ last = NoRun
    /\ resp = NoResp
    /\ probe = NoProbe

LimitInputs ==
    {Missing, Malformed, Num(0 - 1), Num(0), Num(1), Num(2), Num(DEFAULT_LIMIT),
     Num(MAX_LIMIT), Num(MAX_LIMIT + 1), Num(5 * SAMPLE_SIZE)}

SamplerRequests ==
    {req \in Requests({Anonymous}, LimitInputs, {Missing}, {Missing}) : ~req.is_authenticated}

NextSampler ==
    \E req \in SamplerRequests, tie \in {1} : TrendingGet(req, tie)

SpecSampler == InitSampler /\ [][NextSampler]_vars

\* --------------------------------------------- requests next to the batch job
\* SpecFrame: every request that touches a post and both listings, served
\* between the runs of the batch job, on FramePosts posts.
FramePosts == 1

Requesting ==
    \/ \E c \in Communities : Len(posts) < FramePosts /\ CreatePost(1, c)
    \/ \E p \in PostIds : DeletePost(p)
    \/ \E p \in PostIds : EditPost(p)
    \/ \E p \in PostIds, v \in VoteValues : VotePost(1, p, v)
    \/ \E p \in PostIds, parent \in {0} \cup CommentIds : CreateComment(1, p, parent)
    \/ \E c \in CommentIds : DeleteComment(c)
    \/ AdvanceClock
    \/ \E req \in DefaultRequests, tie \in {1} : TrendingGet(req, tie)
    \/ \E c \in Communities, o \in Orderings(PostIds) : CommunityTrendingGet(Anonymous, c, o)

NextFrame == (Quiet /\ Requesting) \/ Batch

SpecFrame == Init /\ [][NextFrame]_vars

\* ------------------------------------------- the sampler's candidate filter
\* SpecListing: up to ListPosts posts, each new, exactly DEFAULT_LOOKBACK hours
\* old or older than that, deleted or not, in the public or the private
\* community; user 1 mutes authors; requests come without identity, from user 1
\* signed in, and from user 1 known by a guest token only.
ListPosts == 2
ListNow == DEFAULT_LOOKBACK + Tick
ListTimes == {0, ListNow - DEFAULT_LOOKBACK, ListNow}

ListPost(i, c, d, t) ==
    [community |-> c, author |-> 1 + (i % NUsers), score |-> 0, votes_total |-> 0,
     is_deleted |-> d, is_edited |-> FALSE, created_at |-> t, trending_score |-> ZeroScore]

InitListing ==
    /\ clock = ListNow
    /\ \E n \in 0..ListPosts :
          \E c \in [1..n -> Communities], d \in [1..n -> BOOLEAN], t \in [1..n -> ListTimes] :
              posts = [i \in 1..n |-> ListPost(i, c[i], d[i], t[i])]
    /\ votes = {}
    /\ comments = << >>
    /\ mutes = {}
    /\ clip = [c \in Communities |-> 0]
    /\ Settled
    /\ runs = [r \in {1} |-> IdleRun]
    /\ last = NoRun
    /\ resp = NoResp
    /\ probe = NoProbe

LookbackParams == {Missing, Malformed, Num(0 - Tick), Num(0), Num(Tick), Num(DEFAULT_LOOKBACK)}

ListingRequests ==
    {req \in Requests({Anonymous, 1}, {Missing}, {Missing}, LookbackParams) :
        req.user = Anonymous => ~req.is_authenticated}

NextListing ==
    \/ \E target \in Users : MuteUser(1, target)
    \/ \E req \in ListingRequests, tie \in {1} : TrendingGet(req, tie)

SpecListing == InitListing /\ [][NextListing]_vars

\* ------------------------------------------------ the sampler's ranking
\* SpecRanking: a corpus of up to MaxCorpus posts in which most posts have no
\* engagement; every 7th post has a comment; every third post with an id above
\* SAMPLE_SIZE + 3 has an upvote and is older than all other posts.
Upvoted(i) == i % 3 = 0 /\ i > SAMPLE_SIZE + 3

RankPost(i) ==
    [community |-> IF i % 67 = 0 THEN 2 ELSE 1, author |-> 1 + (i % NUsers),
     score |-> IF Upvoted(i) THEN 1 ELSE 0, votes_total |-> IF Upvoted(i) THEN 1 ELSE 0,
     is_deleted |-> (i % 50 = 0), is_edited |-> FALSE,
     created_at |-> IF Upvoted(i) THEN 0 ELSE Tick * (1 + (i % MaxTicks)),
     trending_score |-> ZeroScore]

InitRanking ==
    /\ clock = MaxTicks * Tick
    /\ \E n \in CorpusSizes :
          /\ posts = [i \in 1..n |-> RankPost(i)]
          /\ votes = {[post |-> i, user |-> 1, value |-> 1] : i \in {k \in 1..n : Upvoted(k)}}
          /\ comments = [j \in 1..(n \div 7) |-> [post |-> 7 * j, parent |-> 0, is_deleted |-> FALSE]]
    /\ mutes = {}
    /\ clip = [c \in Communities |-> 0]
    /\ Settled
    /\ runs = [r \in {1} |-> IdleRun]
    /\ last = NoRun
    /\ resp = NoResp
    /\ probe = NoProbe

RankingRequests ==
    {req \in Requests({Anonymous}, {Missing, Num(1), Num(2), Num(SmallCorpus), Num(MAX_LIMIT)},
                      {Missing}, {Missing}) : ~req.is_authenticated}

NextRanking ==
    \E req \in RankingRequests, tie \in {1, 0 - 1} : TrendingGet(req, tie)

SpecRanking == InitRanking /\ [][NextRanking]_vars

\* ================================================================ claims

\* ------------------------------------------------ the community listing
\* SpecCommunity: four posts of community 1 (three by user 1, one by user 2) and
\* one post of community 2; the first post is old, the others new; some are
\* deleted, some upvoted, one has a comment.  User 1 mutes user 2, posts of
\* community 1 are pinned and unpinned, and the listings are requested.
CommPosts == 5
CommNow == MaxTicks * Tick

CommPost(i, d, up) ==
    [community |-> IF i = CommPosts THEN 2 ELSE 1,
     author |-> IF i <= 3 THEN 1 ELSE 2,
     score |-> up, votes_total |-> up,
     is_deleted |-> d, is_edited |-> FALSE,
     created_at |-> IF i = 1 THEN 0 ELSE CommNow,
     trending_score |-> ZeroScore]

InitCommunity ==
    /\ clock = CommNow
    /\ \E d \in [{3, 4} -> BOOLEAN], up \in [{1, 2, 3} -> {0, 1}] :
          /\ posts = [i \in 1..CommPosts |->
                        CommPost(i, i \in DOMAIN d /\ d[i], IF i \in DOMAIN up THEN up[i] ELSE 0)]
          /\ votes = {[post |-> i, user |-> 2, value |-> 1] : i \in {j \in DOMAIN up : up[j] = 1}}
    /\ \E cd \in BOOLEAN : comments = <<[post |-> 2, parent |-> 0, is_deleted |-> cd]>>
    /\ mutes = {}
    /\ clip = [c \in Communities |-> 0]
    /\ Settled
    /\ runs = [r \in {1} |-> IdleRun]
    /\ last = NoRun
    /\ resp = NoResp
    /\ probe = NoProbe

\* two orders in which the database may return the rows: by key, and reversed
RowOrders ==
    {[i \in 1..Len(posts) |-> i], [i \in 1..Len(posts) |-> Len(posts) + 1 - i]}

NextCommunity ==
    \/ \E target \in Users : MuteUser(1, target)
    \/ \E p \in PostIds : ClipPost(1, p)
    \/ \E p \in PostIds : UnclipPost(1, p)
    \/ \E user \in {Anonymous, 1}, c \in Communities, o \in RowOrders :
          CommunityTrendingGet(user, c, o)

SpecCommunity == InitCommunity /\ [][NextCommunity]_vars

\* ------------------------------------------------------ comment trees
\* SpecComments: two posts and every forest of up to TreeComments comments (a
\* reply belongs to the post of its parent and is created after it), at most
\* one of them a deleted comment that was replied to afterwards (root_post is
\* read for roots only); comments are then deleted one request at a time.
TreeComments == 4

\* the post of comment i, given each comment's parent and each root's post
RECURSIVE PostOf(_, _, _)
PostOf(i, parent, root_post) ==
    IF parent[i] = 0 THEN root_post[i] ELSE PostOf(parent[i], parent, root_post)

InitComments ==
    /\ clock = 0
    /\ posts = [i \in 1..2 |->
                  [community |-> 1, author |-> 1, score |-> 0, votes_total |-> 0,
                   is_deleted |-> FALSE, is_edited |-> FALSE, created_at |-> 0,
                   trending_score |-> ZeroScore]]
    /\ votes = {}
    /\ \E n \in 0..TreeComments :
          \E parent \in [1..n -> 0..n], root_post \in [1..n -> 1..2], d \in [1..n -> BOOLEAN] :
              /\ \A i \in 1..n : parent[i] < i
              /\ \A i \in 1..n : parent[i] # 0 => root_post[i] = 1
              /\ Cardinality({i \in 1..n : d[i]}) <= 1
              /\ \A i \in 1..n : d[i] => \E j \in 1..n : parent[j] = i
              /\ comments = [i \in 1..n |->
                               [post |-> PostOf(i, parent, root_post),
                                parent |-> parent[i], is_deleted |-> d[i]]]
    /\ mutes = {}
    /\ clip = [c \in Communities |-> 0]
    /\ Settled
    /\ runs = [r \in {1} |-> IdleRun]
    /\ last = NoRun
    /\ resp = NoResp
    /\ probe = NoProbe

NextComments == \E c \in CommentIds : DeleteComment(c)

SpecComments == InitComments /\ [][NextComments]_vars

\* ------------------------------------------------- guest data transfer
\* SpecTransfer: one post of community 1, of which the guest is a member next to
\* the login users; everybody votes, the guest's data is handed to a login user,
\* and the guest (a new row under the same token) may join again.
InitTransfer ==
    /\ clock = 0
    /\ posts = <<[community |-> 1, author |-> 1, score |-> 0, votes_total |-> 0,
                  is_deleted |-> FALSE, is_edited |-> FALSE, created_at |-> 0,
                  trending_score |-> ZeroScore]>>
    /\ votes = {}
    /\ comments = << >>
    /\ mutes = {}
    /\ clip = [c \in Communities |-> 0]
    /\ runs = [r \in {1} |-> IdleRun]
    /\ last = NoRun
    /\ resp = NoResp
    /\ probe = NoProbe
    /\ community = [c \in Communities |->
                      [exists |-> TRUE, join_policy |-> "open",
                       members_count |-> NUsers + 1]]
    /\ memberships = {Membership(c, u, IF u = 1 THEN "owner" ELSE "member", "approved") :
                         c \in Communities, u \in People}
    /\ blocks = {}
    /\ calls = NoCalls

NextTransfer ==
    \/ \E u \in People, p \in PostIds, v \in VoteValues : VotePost(u, p, v)
    \/ \E g \in Guests, u \in Users : TransferGuest(g, u)
    \/ \E g \in Guests : JoinCommunity(g, 1)

SpecTransfer == InitTransfer /\ [][NextTransfer]_vars

\* ------------------------------------------------------- member counter
\* SpecMembers: community 1 is created by user 1 under any join policy; user 2
\* and the guest join, leave, post and comment; user 1 approves, rejects,
\* removes, blocks and changes the policy; the guest's data is handed to user 2.
InitMembers ==
    /\ clock = 0
    /\ posts = << >>
    /\ votes = {}
    /\ comments = << >>
    /\ mutes = {}
    /\ clip = [c \in Communities |-> 0]
    /\ runs = [r \in {1} |-> IdleRun]
    /\ last = NoRun
    /\ resp = NoResp
    /\ probe = NoProbe
    /\ community = [c \in Communities |->
                      [exists |-> FALSE, join_policy |-> "open", members_count |-> 0]]
    /\ memberships = {}
    /\ blocks = {}
    /\ calls = NoCalls

NextMembers ==
    \/ \E policy \in JoinPolicies : CreateCommunity(1, 1, policy)
    \/ \E u \in People : JoinCommunity(u, 1)
    \/ \E u \in People : LeaveCommunity(u, 1)
    \/ \E target \in People : ApproveRequest(1, 1, target)
    \/ \E target \in People : RejectRequest(1, 1, target)
    \/ \E target \in People : RemoveMember(1, 1, target)
    \/ \E target \in People : BlockMember(1, 1, target)
    \/ \E policy \in JoinPolicies : UpdateCommunity(1, 1, policy)
    \/ \E u \in People : CreatePost(u, 1)
    \/ \E u \in People, p \in PostIds : CreateComment(u, p, 0)
    \/ \E g \in Guests : TransferGuest(g, 2)

SpecMembers == InitMembers /\ [][NextMembers]_vars

ProbeEngagement10 ==
    10 * (probe.upvotes - probe.downvotes) + probe.comment_count * probe.comment_weight10

\* a score is a finite non-negative number: whole part and 7-decimal fraction
IsScore(x) == /\ x # None
              /\ x[1] \in Nat
              /\ x[2] \in 0..(SCALE7 - 1)

\* C8: for all non-negative upvotes, downvotes and comment_count, created_at and
\* now in either order and every half_life_hours (positive, zero, negative),
\* calculate_trending_score returns a finite value >= 0.0.
C8_NonNegativeTotal ==
    /\ probe.kind = "score" /\ probe.r1 # None => IsScore(probe.r1)
    /\ probe.kind = "score" /\ probe.r2 # None => IsScore(probe.r2)

C8_Witness ==
    /\ probe.kind = "score"
    /\ probe.r1 # None
    /\ probe.downvotes > probe.upvotes
    /\ probe.half_life_hours < 0
    /\ probe.t1 < probe.created_at
    /\ probe.r2 # None /\ ScoreLT(ZeroScore, probe.r2)

\* C9: for fixed upvotes, downvotes, created_at, comment_count and half-life and
\* two instants t1 < t2, the score at t1 is at least the score at t2.
C9_MonotonicDecay ==
    (probe.kind = "score" /\ probe.r1 # None /\ probe.r2 # None /\ probe.t1 < probe.t2)
        => ScoreLE(probe.r2, probe.r1)

C9_Witness ==
    /\ probe.kind = "score"
    /\ probe.r1 # None /\ probe.r2 # None
    /\ probe.created_at <= probe.t1 /\ probe.t1 < probe.t2
    /\ ScoreLT(probe.r2, probe.r1)

\* C10: whenever (upvotes - downvotes) + comment_count * comment_weight <= 0 the
\* score is exactly 0.0, whatever created_at, now and half_life_hours are.
C10_ZeroFloor ==
    (probe.kind = "score" /\ probe.r1 # None /\ ProbeEngagement10 <= 0)
        => probe.r1 = ZeroScore

C10_Witness ==
    /\ probe.kind = "score"
    /\ probe.r1 = ZeroScore
    /\ ProbeEngagement10 = 0
    /\ probe.comment_count > 0 /\ probe.comment_weight10 > 0
    /\ probe.created_at < probe.t1

\* C7: every (score, votes_total) a post reaches from (0, 0) through votes,
\* withdrawals and switches is given back by the derivation: upvotes - downvotes
\* = score, upvotes + downvotes = votes_total, and neither is negative. The
\* sampler and the batch job each spell the derivation out.
C7_DerivationRoundTrip ==
    \A p \in PostIds :
        \A d \in {SamplerDerive(posts[p]), BatchDerive(posts[p])} :
            /\ d.upvotes - d.downvotes = posts[p].score
            /\ d.upvotes + d.downvotes = posts[p].votes_total
            /\ d.upvotes >= 0
            /\ d.downvotes >= 0

C7_Witness ==
    \E p \in PostIds :
        /\ posts[p].votes_total = 2
        /\ posts[p].score = 0 - 2
        /\ SamplerDerive(posts[p]) = [upvotes |-> 0, downvotes |-> 2]
        /\ \E q \in PostIds : posts[q].votes_total = 1 /\ posts[q].score = 1

C4_AsStated ==
    (resp.kind = "trending" /\ resp.request.limit.kind = "num")
        => Len(resp.ids) <= Max(0, Min(resp.request.limit.val, MAX_LIMIT))

\* C4: for a numeric limit n and every corpus size the sampler returns at most
\* max(1, min(n, 50)) posts, for every request at most 50, and it computes a
\* score for at most 200 candidates.
C4_SamplerCap ==
    resp.kind = "trending"
        => /\ resp.request.limit.kind = "num"
                => Len(resp.ids) <= Max(1, Min(resp.request.limit.val, MAX_LIMIT))
           /\ Len(resp.ids) <= MAX_LIMIT
           /\ resp.scored <= SAMPLE_SIZE

C4_Witness ==
    /\ resp.kind = "trending"
    /\ Len(posts) > SAMPLE_SIZE
    /\ resp.request.limit.kind = "num"
    /\ resp.request.limit.val > MAX_LIMIT
    /\ Len(resp.ids) = MAX_LIMIT
    /\ resp.scored = SAMPLE_SIZE

\* a step of the batch job that writes: the page transaction or the reset
BatchWrites ==
    \E r \in DOMAIN runs : /\ runs[r].pc \in {"writing", "cleanup"}
                           /\ runs'[r].pc # runs[r].pc
                           /\ runs'[r].pc # "aborted"

\* C3: the persisted trending_score of a post changes only in a step of the batch
\* job; the sampler, the community listing, a vote, a comment, an edit and a
\* soft delete leave it as it is.
C3_OnlyBatchWrites ==
    [][(\E p \in PostIds : posts'[p].trending_score # posts[p].trending_score)
          => BatchWrites]_vars

C3_Witness ==
    /\ resp.kind = "trending"
    /\ Len(resp.ids) > 0
    /\ \E i \in DOMAIN resp.ids :
          /\ ScoreLT(ZeroScore, posts[resp.ids[i]].trending_score)
          /\ ScoreLT(posts[resp.ids[i]].trending_score, resp.trending_scores[i])
          /\ posts[resp.ids[i]].is_edited
          /\ posts[resp.ids[i]].votes_total > 0

\* C11: for now earlier than created_at the score equals the score at
\* now = created_at, all other inputs equal.
C11_ClockSkewClamp ==
    (probe.kind = "score" /\ probe.r1 # None /\ probe.r2 # None
        /\ probe.t1 < probe.created_at /\ probe.t2 = probe.created_at)
        => probe.r1 = probe.r2

C11_Witness ==
    /\ probe.kind = "score"
    /\ probe.r1 # None /\ probe.r2 # None
    /\ probe.t1 < probe.created_at /\ probe.t2 = probe.created_at
    /\ probe.half_life_hours = 3
    /\ ScoreLT(ZeroScore, probe.r1)

\* the half-life the probe's score is computed with, and the whole number of
\* half-lives elapsed at the instant now
ProbeHalfLife ==
    IF probe.half_life_hours > 0 THEN probe.half_life_hours ELSE DEFAULT_HALF_LIFE
ProbeHalfLives(now) ==
    IF now < probe.created_at THEN 0 ELSE (now - probe.created_at) \div ProbeHalfLife

\* x * k for a score x and a natural k
ScoreTimes(x, k) == <<x[1] * k + (x[2] * k) \div SCALE7, (x[2] * k) % SCALE7>>

ClaimedLimit(limit_param) ==
    IF limit_param.kind = "num" THEN Max(1, Min(limit_param.val, 50)) ELSE 20

\* C14: a missing or non-integer limit counts as 20, an integer limit n as
\* max(1, min(n, 50)); every request is answered with a ranking of that many
\* posts, or of all scored candidates when there are fewer.
C14_LimitHandling ==
    resp.kind = "trending"
        => Len(resp.ids) = Min(resp.scored, ClaimedLimit(resp.request.limit))

C14_Witness ==
    /\ resp.kind = "trending"
    /\ resp.request.limit = Malformed
    /\ resp.scored > DEFAULT_LIMIT
    /\ Len(resp.ids) = DEFAULT_LIMIT

\* C15: a negative lookback_hours counts as the default of 168 hours: the
\* response holds no post created more than 168 hours before the request's now.
C15_NegativeLookback ==
    (resp.kind = "trending" /\ resp.request.lookback_hours.kind = "num"
        /\ resp.request.lookback_hours.val < 0)
        => \A i \in DOMAIN resp.ids :
              posts[resp.ids[i]].created_at >= resp.now - DEFAULT_LOOKBACK

\* the lookback a request asks for, as the claim reads it: 168 hours when the
\* parameter is missing or not a number
ClaimedLookback(lookback_param) ==
    IF lookback_param.kind = "num" THEN lookback_param.val ELSE 168

\* C16: no post in a response is soft-deleted, none is in a community that is
\* not public, and when lookback_hours > 0 none was created before the
\* request's now - lookback_hours.
C16_CandidateFilter ==
    resp.kind = "trending"
        => \A i \in DOMAIN resp.ids :
              LET post == posts[resp.ids[i]]
                  lookback_hours == ClaimedLookback(resp.request.lookback_hours)
              IN  /\ ~post.is_deleted
                  /\ Visibility(post.community) = "public"
                  /\ lookback_hours > 0 => post.created_at >= resp.now - lookback_hours

C16_Witness ==
    /\ resp.kind = "trending"
    /\ resp.request.lookback_hours = Num(DEFAULT_LOOKBACK)
    /\ Len(posts) = 2
    /\ posts[1].created_at = resp.now - DEFAULT_LOOKBACK
    /\ posts[2].created_at < resp.now - DEFAULT_LOOKBACK
    /\ ~posts[2].is_deleted /\ Visibility(posts[2].community) = "public"
    /\ resp.ids = <<1>>

RespCandidates == {p \in PostIds : SamplerCandidate(p, resp.request, resp.now)}
RespScore(p) ==
    SamplerScore(posts[p], active_comments(p), resp.now,
                 SamplerHalfLife(resp.request.half_life_hours))
NewerThan(p) == {q \in RespCandidates : posts[q].created_at > posts[p].created_at}
NotOlderThan(p) == {q \in RespCandidates : posts[q].created_at >= posts[p].created_at}
RespListed == {resp.ids[i] : i \in DOMAIN resp.ids}

\* C18: a response lists posts by non-increasing ephemeral score; it holds the
\* k highest-scored posts among the at most 200 most recently created
\* candidates; a candidate with 200 or more candidates created after it is
\* never listed, whatever its score.
C18_Ranking ==
    resp.kind = "trending"
        => /\ \A i \in DOMAIN resp.ids : resp.trending_scores[i] = RespScore(resp.ids[i])
           /\ \A i \in DOMAIN resp.ids :
                 i > 1 => ScoreLE(resp.trending_scores[i], resp.trending_scores[i - 1])
           /\ Cardinality(RespListed) = Len(resp.ids)
           /\ RespListed \subseteq RespCandidates
           /\ Len(resp.ids) = Min(SamplerLimit(resp.request.limit),
                                  Min(Cardinality(RespCandidates), SAMPLE_SIZE))
           /\ \A p \in RespListed : Cardinality(NewerThan(p)) < SAMPLE_SIZE
           /\ \A q \in RespCandidates \ RespListed :
                 Cardinality(NotOlderThan(q)) <= SAMPLE_SIZE
                    => ScoreLE(RespScore(q), resp.trending_scores[Len(resp.ids)])

C18_Witness ==
    /\ resp.kind = "trending"
    /\ Len(resp.ids) = MAX_LIMIT
    /\ ScoreLT(resp.trending_scores[MAX_LIMIT], resp.trending_scores[1])
    /\ \E q \in RespCandidates \ RespListed :
          /\ Cardinality(NewerThan(q)) >= SAMPLE_SIZE
          /\ ScoreLT(resp.trending_scores[MAX_LIMIT], RespScore(q))
    /\ \E q \in RespCandidates \ RespListed :
          /\ Cardinality(NotOlderThan(q)) <= SAMPLE_SIZE
          /\ \E i \in DOMAIN resp.ids : posts[q].created_at > posts[resp.ids[i]].created_at

Computed(r, p) ==
    BatchScore(posts[p], active_comments(p), runs[r].now, runs[r].half_life_hours)

\* the posts of a page whose stored score is further than 0.0001 from the computed one
Dirty(r, batch) ==
    {p \in batch : DiffExceeds(posts[p].trending_score, Computed(r, p))}

\* the posts whose persisted trending_score the step changes
Written ==
    {p \in PostIds : posts'[p].trending_score # posts[p].trending_score}

\* the page a run has read last
LastPage(run) == run.pages[Len(run.pages)]

DonePages(run) == IF run.batch_size = 0 THEN 0 ELSE run.offset \div run.batch_size

\* the rows of the first k pages a run has read
RECURSIVE RowsRead(_, _)
RowsRead(run, k) ==
    IF k = 0 THEN 0 ELSE Cardinality(run.pages[k]) + RowsRead(run, k - 1)

PostVotes(p) == {v \in votes : v.post = p}
ValueSum(p) ==
    Cardinality({v \in PostVotes(p) : v.value = 1})
      - Cardinality({v \in PostVotes(p) : v.value = 0 - 1})

\* C26: after every sequence of vote requests served one after another,
\* Post.score is the sum of the values of the post's PostVote rows, votes_total
\* is their number, no (post, user) has two rows, and votes_total >= |score|.
C26_VoteCounters ==
    \A p \in PostIds :
        /\ posts[p].score = ValueSum(p)
        /\ posts[p].votes_total = Cardinality(PostVotes(p))
        /\ \A v, w \in PostVotes(p) : v.user = w.user => v = w
        /\ posts[p].votes_total >= Abs(posts[p].score)

\* reached: a post whose only row is one user's down vote, next to a post with
\* the up votes of both users
C26_Witness ==
    /\ \E p \in PostIds :
          /\ PostVotes(p) = {[post |-> p, user |-> 1, value |-> 0 - 1]}
          /\ posts[p].score = 0 - 1
          /\ posts[p].votes_total = 1
    /\ \E q \in PostIds :
          /\ Cardinality(PostVotes(q)) = 2
          /\ posts[q].score = 2

CommunitySet(c, user) ==
    {p \in PostIds : /\ posts[p].community = c
                     /\ ~posts[p].is_deleted
                     /\ <<user, posts[p].author>> \notin mutes}

\* the score of post p from its vote rows and live comments at now, half-life 6.0
RowScore(p, now) ==
    calculate_trending_score(Cardinality({v \in PostVotes(p) : v.value = 1}),
                             Cardinality({v \in PostVotes(p) : v.value = 0 - 1}),
                             posts[p].created_at, active_comments(p),
                             DEFAULT_COMMENT_WEIGHT10, now, DEFAULT_HALF_LIFE)

\* C25: a community listing holds every non-deleted post of the community whose
\* author the requester has not muted, each once and with its score at the
\* request's now and half-life 6.0; the clipped post, when it is among them, is
\* first; the other posts follow by non-increasing score.
C25_CommunityListing ==
    [][(resp' # resp /\ resp'.kind = "community")
          => LET r == resp'
                 S == CommunitySet(r.community, r.user)
                 rest == {i \in DOMAIN r.ids : r.ids[i] # clip[r.community]}
             IN  /\ r.now = clock
                 /\ Len(r.ids) = Cardinality(S)
                 /\ {r.ids[i] : i \in DOMAIN r.ids} = S
                 /\ \A i \in DOMAIN r.ids : r.trending_scores[i] = RowScore(r.ids[i], clock)
                 /\ clip[r.community] \in S => r.ids[1] = clip[r.community]
                 /\ \A i, j \in rest : i < j => ScoreLE(r.trending_scores[j], r.trending_scores[i])
    ]_vars

\* reached: user 1, who muted user 2, gets the three posts of user 1; the old
\* clipped post is first with a score below the next one, and the live post of
\* user 2 in the community is left out
C25_Witness ==
    /\ resp.kind = "community"
    /\ resp.user = 1
    /\ <<1, 2>> \in mutes
    /\ Len(resp.ids) = 3
    /\ resp.ids[1] = clip[resp.community]
    /\ ScoreLT(resp.trending_scores[1], resp.trending_scores[3])
    /\ ScoreLT(resp.trending_scores[3], resp.trending_scores[2])
    /\ \E p \in PostIds : /\ posts[p].community = resp.community
                           /\ ~posts[p].is_deleted
                           /\ posts[p].author = 2

\* ------------------------------------------------------------ C29
\* c is comment i or one of its ancestors
RECURSIVE IsUnder(_, _)
IsUnder(i, c) ==
    \/ i = c
    \/ comments[i].parent # 0 /\ IsUnder(comments[i].parent, c)

\* the comment c with all its descendants
Subtree(c) == {i \in CommentIds : IsUnder(i, c)}

\* C29: a step that deletes comments is the delete of some comment c: exactly the
\* comments of c's subtree are marked deleted, all of the post of c, nothing
\* else about any comment changes, and the live comment count of every post
\* drops by the number of its comments in the subtree that were live before.
C29_CommentTreeDelete ==
    [][comments' # comments
          => \E c \in CommentIds :
                /\ comments' = [i \in CommentIds |->
                                   IF i \in Subtree(c) THEN [comments[i] EXCEPT !.is_deleted = TRUE]
                                   ELSE comments[i]]
                /\ \A i \in Subtree(c) : comments[i].post = comments[c].post
                /\ \A p \in PostIds :
                      Cardinality({i \in CommentIds : comments'[i].post = p /\ ~comments'[i].is_deleted})
                        = active_comments(p)
                            - Cardinality({i \in Subtree(c) : comments[i].post = p /\ ~comments[i].is_deleted})
    ]_vars

\* reached: a chain of three comments on one post, all deleted, next to a live
\* comment of the same post that is not below them
C29_Witness ==
    \E a, b, c, x \in CommentIds :
        /\ comments[a].parent = 0
        /\ comments[b].parent = a
        /\ comments[c].parent = b
        /\ comments[a].is_deleted /\ comments[b].is_deleted /\ comments[c].is_deleted
        /\ x \notin {a, b, c}
        /\ comments[x].post = comments[a].post
        /\ ~comments[x].is_deleted
        /\ active_comments(comments[a].post) = 1

\* ------------------------------------------------------------ C28
\* C28: where votes are cast and a guest's data is handed to a login user, every
\* post's score stays the sum of the values of its vote rows and its
\* votes_total their number.
C28_TransferKeepsCounters ==
    \A p \in PostIds :
        /\ posts[p].score = ValueSum(p)
        /\ posts[p].votes_total = Cardinality(PostVotes(p))

\* ------------------------------------------------------------ C30
\* the memberships of community c with status APPROVED
ApprovedMembers(c) == {m \in memberships : m.community = c /\ m.status = "approved"}

\* C30: members_count of every community is the number of its memberships with
\* status APPROVED, and is not negative.
C30_MemberCounter ==
    \A c \in Communities :
        /\ community[c].members_count = Cardinality(ApprovedMembers(c))
        /\ community[c].members_count >= 0

\* ------------------------------------------------------- concurrent votes
\* SpecVoteRace: one post whose counters match its vote rows; two vote requests
\* of any users and values run with their statements interleaved.
InitVoteRace ==
    /\ clock = 0
    /\ \E st \in VoteStates :
          /\ posts = <<[community |-> 1, author |-> 1,
                        score |-> st.upvotes - st.downvotes,
                        votes_total |-> st.upvotes + st.downvotes,
                        is_deleted |-> FALSE, is_edited |-> FALSE,
                        created_at |-> 0, trending_score |-> ZeroScore]>>
          /\ votes = VoteRows(1, st)
    /\ comments = << >>
    /\ mutes = {}
    /\ clip = [c \in Communities |-> 0]
    /\ Settled
    /\ runs = [r \in {1} |-> IdleRun]
    /\ last = NoRun
    /\ resp = NoResp
    /\ probe = NoProbe

NextVoteRace ==
    \/ \E k \in VoteCalls, u \in Users, v \in VoteValues : VoteBegin(k, u, 1, v)
    \/ \E k \in VoteCalls : VoteRow(k)
    \/ \E k \in VoteCalls : VoteCounters(k)

SpecVoteRace == InitVoteRace /\ [][NextVoteRace]_vars

VotesFinished == \A k \in VoteCalls : calls.vote[k].pc \in {"done", "failed"}

\* C27: once both vote requests on the post have finished, Post.score is the sum
\* of the values of the post's vote rows, Post.votes_total is their number, and
\* votes_total is not negative.
C27_ConcurrentVotes ==
    VotesFinished =>
        \A p \in PostIds :
            /\ posts[p].score = ValueSum(p)
            /\ posts[p].votes_total = Cardinality(PostVotes(p))
            /\ posts[p].votes_total >= 0

\* ------------------------------------------------ the evaluation instant
\* SpecClock: two up-voted public posts; a batch run of one post per page and a
\* sampler request proceed while time passes between their steps.
InitClock ==
    /\ clock = 0
    /\ posts = [i \in 1..NPosts |->
                  [community |-> 1, author |-> 1, score |-> 1, votes_total |-> 1,
                   is_deleted |-> FALSE, is_edited |-> FALSE, created_at |-> 0,
                   trending_score |-> ZeroScore]]
    /\ votes = {[post |-> i, user |-> 1, value |-> 1] : i \in 1..NPosts}
    /\ comments = << >>
    /\ mutes = {}
    /\ clip = [c \in Communities |-> 0]
    /\ Settled
    /\ runs = [r \in {1} |-> IdleRun]
    /\ last = NoRun
    /\ resp = NoResp
    /\ probe = NoProbe

ClockRequests ==
    {req \in Requests({Anonymous}, {Missing}, {Missing}, {Num(Tick)}) : ~req.is_authenticated}

NextClock ==
    \/ AdvanceClock
    \/ \E lb \in BatchLookbacks, hl \in BatchHalfLives : BatchStart(1, lb, hl, 1)
    \/ BatchReadPage(1)
    \/ BatchWritePage(1)
    \/ BatchCleanup(1)
    \/ BatchExit(1)
    \/ \E req \in ClockRequests : TrendingBegin(req)
    \/ TrendingFinish(1)

SpecClock == InitClock /\ [][NextClock]_vars

\* the updates a run holds after reading a page: the posts of the page whose
\* stored score is off, each with its score at the run's now
FrozenUpdates(r) ==
    {<<p, BatchScore(posts[p], active_comments(p), runs'[r].now, runs'[r].half_life_hours)>> :
        p \in {q \in LastPage(runs'[r]) :
                  DiffExceeds(posts[q].trending_score,
                              BatchScore(posts[q], active_comments(q), runs'[r].now,
                                         runs'[r].half_life_hours))}}

InitRace ==
    /\ clock = 0
    /\ posts = <<[community |-> 1, author |-> 1, score |-> 1, votes_total |-> 1,
                  is_deleted |-> FALSE, is_edited |-> FALSE, created_at |-> 0,
                  trending_score |-> ZeroScore]>>
    /\ votes = {[post |-> 1, user |-> 1, value |-> 1]}
    /\ comments = << >>
    /\ mutes = {}
    /\ clip = [c \in Communities |-> 0]
    /\ Settled
    /\ runs = [r \in {1, 2} |-> IdleRun]
    /\ last = NoRun
    /\ resp = NoResp
    /\ probe = NoProbe

NextRace ==
    \/ AdvanceClock
    \/ \E r \in DOMAIN runs, lb \in BatchLookbacks, hl \in BatchHalfLives :
          BatchStart(r, lb, hl, 1)
    \/ \E r \in DOMAIN runs : BatchReadPage(r)
    \/ \E r \in DOMAIN runs : BatchWritePage(r)
    \/ \E r \in DOMAIN runs : BatchCleanup(r)
    \/ \E r \in DOMAIN runs : BatchExit(r)

SpecRace == InitRace /\ [][NextRace]_vars

====
